---- MODULE Spec2Model ----
(***************************************************************************)
(* LightweightSemaphore of common/sema.h (the "benaphore" pattern): one    *)
(* atomic signed counter m_count in front of a kernel semaphore m_sema.    *)
(*                                                                         *)
(* Every atomic access of m_count (load, compare_exchange, fetch_add,      *)
(* fetch_sub) and every call of the kernel semaphore is one step of the    *)
(* calling thread; the purely local computation that follows an access     *)
(* (the test of the loop condition, the computation of newCount, the       *)
(* return) is part of the same step.  A call starts with its first atomic  *)
(* access.  Every access acts on the latest value of m_count in its        *)
(* modification order; the counts stay far from the limits of ssize_t.     *)
(* The kernel semaphore is the POSIX one (sem_wait / sem_post).            *)
(*                                                                         *)
(* BitField of common/bitfield.h: a word of an unsigned type T is the set  *)
(* of the positions of its 1 bits; &, |, ~, <<, >>, + and - are computed   *)
(* bit by bit in the width of T (T at least as wide as int, as the         *)
(* uint32_t of main.cpp, so no operand is promoted to a wider type).       *)
(* assert is active (no NDEBUG): a failed assertion ends the run before    *)
(* the statement that follows it.                                          *)
(***************************************************************************)
EXTENDS Integers, FiniteSets

\* ------------------------------------------------------------------ bounds
NThreads == 3        \* threads that may call the semaphore
MaxCalls == 2        \* calls issued in one run of Spec (all threads together)
MaxInit == 1         \* largest initialCount passed to the constructor
MaxArg == 2          \* largest max / count argument of a call
MaxSpurious == 1     \* spurious failures of compare_exchange_weak in one run
SpinBudget == 1      \* iterations of the spin loops ("int spin = 10000", scaled down)
MaxCallsWS == 3      \* calls issued in one run of SpecWS (wait and signal only)
MaxCallsTW == 3      \* calls issued in one run of SpecTW (tryWait only)
MaxInitTW == 2       \* largest initialCount of SpecTW
MaxCount == 3        \* SpecLF: signal is not called when it would raise m_count above this

\* the threads of the runs that issue calls without end (SpecLF)
LockFreeThreads == {1, 2}

Threads == 1..NThreads

VARIABLES
    m_count,      \* std::atomic<ssize_t> m_count
    m_sema,       \* Semaphore m_sema: the tokens the kernel semaphore holds
    th,           \* th[t]: the position and the locals of thread t's call
    ret,          \* history: the frame of the call that returned last, as it returned
    initialCount, \* history: the constructor's argument
    signalled,    \* history: sum of the counts of the executed fetch_add
    acquired,     \* history: tokens handed out by the calls that returned
    calls,        \* history: calls issued
    spurious,     \* history: spurious compare_exchange_weak failures
    recording,    \* whether the run keeps the history (ret and the counters)
    budget,       \* the calls that may be issued in a recording run
    live,         \* the threads that issue calls in this run
    value,        \* BitField<T>::value, the positions of its 1 bits
    wordBits,     \* sizeof(T) * 8 of the BitField's word type T
    bf            \* history: the mutator applied to the BitField, its
                  \* member, its arguments and the value it found

vars == <<m_count, m_sema, th, ret, initialCount, signalled, acquired,
          calls, spurious, recording, budget, live, value, wordBits, bf>>

\* ----------------------------------------------------------- pure helpers

\* (mutant) the raw counter
AvailableValueRaw(count) == count

\* sema.h:298  "return count > 0 ? count : 0;"
AvailableValue(count) == IF count > 0 THEN count ELSE 0

\* (mutant) all of max or nothing
NewCountAllOrNothing(oldCount, max) ==
    IF oldCount >= max THEN oldCount - max ELSE oldCount

\* (mutant) the subtraction without the clamp at 0
NewCountUnclamped(oldCount, max) == oldCount - max

\* sema.h:267 and 223  "ssize_t newCount = oldCount > max ? oldCount - max : 0;"
NewCount(oldCount, max) == IF oldCount > max THEN oldCount - max ELSE 0

\* (mutant) every token of the signal sent to the kernel semaphore
ToReleaseAll(oldCount, count) == count

\* (mutant) every waiter woken, whatever the count of the signal
ToReleaseWaiting(oldCount, count) == IF oldCount < 0 THEN -oldCount ELSE 0

\* (mutant) a signal that wakes at most one waiter
ToReleaseOne(oldCount, count) == IF oldCount < 0 /\ count > 0 THEN 1 ELSE 0

\* (mutant) the two branches of the conditional exchanged
ToReleaseSwapped(oldCount, count) == IF -oldCount < count THEN count ELSE -oldCount

\* sema.h:288  "ssize_t toRelease = -oldCount < count ? -oldCount : count;"
ToRelease(oldCount, count) == IF -oldCount < count THEN -oldCount ELSE count

\* (mutant) a plain store in place of the compare-and-swap
CompareExchangeBlind(current, expected) == TRUE

\* compare_exchange: succeeds when the current value is the expected one
CompareExchange(current, expected) == current = expected

\* (mutant) the loop entered at a count of 0 too
LoopTestFromZero(oldCount) == oldCount >= 0

\* sema.h:246 "while (oldCount > 0)"
LoopTest(oldCount) == oldCount > 0

\* (mutant) the token of the fetch_sub forgotten in the sum
TopUpResultWithoutFirst(r) == r

\* sema.h:233 "return 1 + tryWaitMany(max - 1);"
TopUpResult(r) == 1 + r

\* "tryWait(max - 1)" of the top-up at sema.h:233
TopUpMax(max) == max - 1

\* The record of a BitField no mutator has been applied to.
NoMutation ==
    [op |-> "none", kind |-> "none", offset |-> 0, bits |-> 0, numItems |-> 0,
     index |-> 0, v |-> {}, before |-> {}, failed |-> FALSE]

\* ---------------------------------------------------------------- frames

\* The frame of a call that has not started: no operation, nothing read.
NoFrame ==
    [pc |-> "idle", op |-> "none", arg |-> 0, oldCount |-> 0, spin |-> 0,
     max |-> 0, acc |-> 0, result |-> 0, toRelease |-> 0,
     startCount |-> 0, path |-> "none", posted |-> 0, dirty |-> FALSE]

\* The frame of a call of operation o with argument a, entered now.
\*   acc        tokens the call has taken from m_count and not yet returned
\*   startCount m_count when the call was entered
\*   path       how the call got its result: fast | spin | decrement | kernel
\*   posted     kernel signals the call has made
\*   dirty      another thread changed m_count since the call was entered
Call(o, a) ==
    [NoFrame EXCEPT !.op = o, !.arg = a, !.startCount = m_count]

\* The frame after the call returned r on path p: what the caller sees.
Done(f, r, p) ==
    [f EXCEPT !.pc = "idle", !.result = r, !.path = p, !.oldCount = 0,
              !.spin = 0, !.max = 0, !.acc = 0, !.toRelease = 0]

\* Tokens a returned call handed to its caller.
Tokens(f) ==
    CASE f.op = "wait" -> 1
      [] f.op = "tryWait" -> IF f.result THEN 1 ELSE 0
      [] f.op \in {"tryWaitMany", "waitMany"} -> f.result
      [] OTHER -> 0

CanCall(t) ==
    /\ t \in live
    /\ th[t].pc = "idle"
    /\ recording => calls < budget

\* One step of thread t: its frame becomes f, m_count becomes c.
Commit(t, f, c) ==
    /\ th' = [u \in Threads |->
                 IF u = t THEN (IF f.pc = "idle" THEN NoFrame ELSE f)
                 ELSE IF c # m_count /\ th[u].pc # "idle"
                      THEN [th[u] EXCEPT !.dirty = TRUE]
                      ELSE th[u]]
    /\ ret' = IF recording /\ f.pc = "idle" THEN f ELSE ret
    /\ m_count' = c
    /\ acquired' = IF recording /\ f.pc = "idle"
                   THEN acquired + Tokens(f) ELSE acquired
    /\ calls' = IF recording /\ th[t].pc = "idle" THEN calls + 1 ELSE calls
    /\ UNCHANGED <<initialCount, recording, budget, live, value, wordBits, bf>>

\* ---------------------------------------------------------------- tryWait

\* (mutant) tryWait going on to wait for a token as wait() does
TryWaitFailedBlocking(f) ==
    [f EXCEPT !.pc = "ws_load", !.spin = SpinBudget, !.oldCount = 0]

\* (mutant) wait() going from the failed tryWait straight to the fetch_sub
TryWaitFailedNoSpin(f) ==
    IF f.op = "tryWait" THEN Done(f, FALSE, "fast")
    ELSE [f EXCEPT !.pc = "w_sub", !.spin = SpinBudget, !.oldCount = 0]

\* sema.h:251 "return false", and for wait() sema.h:256-257 and 198: the
\* failed tryWait is followed by waitWithPartialSpinning.
TryWaitFailed(f) ==
    IF f.op = "tryWait" THEN Done(f, FALSE, "fast")
    ELSE [f EXCEPT !.pc = "ws_load", !.spin = SpinBudget, !.oldCount = 0]

\* sema.h:249 "return true"
TryWaitSucceeded(f) ==
    IF f.op = "tryWait" THEN Done(f, TRUE, "fast") ELSE Done(f, 0, "fast")

\* sema.h:245-246: the load and the first test of "while (oldCount > 0)".
TryWaitRead(t, f) ==
    /\ Commit(t, IF LoopTest(m_count)
                 THEN [f EXCEPT !.pc = "tw_cas", !.oldCount = m_count]
                 ELSE TryWaitFailed(f), m_count)
    /\ UNCHANGED <<m_sema, signalled, spurious>>

\* bool tryWait(): sema.h:243-252
TryWait(t) ==
    /\ CanCall(t)
    /\ TryWaitRead(t, Call("tryWait", 0))

\* void wait(): sema.h:254-258, entering tryWait()
Wait(t) ==
    /\ CanCall(t)
    /\ TryWaitRead(t, Call("wait", 0))

\* sema.h:248: compare_exchange_weak(oldCount, oldCount - 1)
TryWaitCAS(t) ==
    /\ th[t].pc = "tw_cas"
    /\ LET f == th[t] IN
       \/ /\ CompareExchange(m_count, f.oldCount)
          /\ Commit(t, TryWaitSucceeded(f), f.oldCount - 1)
          /\ UNCHANGED <<m_sema, signalled, spurious>>
       \/ /\ ~CompareExchange(m_count, f.oldCount)
          /\ Commit(t, IF LoopTest(m_count)
                       THEN [f EXCEPT !.oldCount = m_count]
                       ELSE TryWaitFailed(f), m_count)
          /\ UNCHANGED <<m_sema, signalled, spurious>>
       \/ /\ m_count = f.oldCount
          /\ spurious < MaxSpurious
          /\ spurious' = spurious + 1
          /\ Commit(t, f, m_count)
          /\ UNCHANGED <<m_sema, signalled>>

\* ------------------------------------------------ waitWithPartialSpinning

\* "while (spin--)": the next iteration, or the fetch_sub after the loop.
SpinNext(f, loadpc, subpc) ==
    [f EXCEPT !.pc = IF f.spin > 0 THEN loadpc ELSE subpc]

\* sema.h:199-202: "spin--", the load and the test "oldCount > 0"
WaitSpinLoad(t) ==
    /\ th[t].pc = "ws_load"
    /\ LET f == [th[t] EXCEPT !.spin = @ - 1, !.oldCount = m_count] IN
       Commit(t, IF m_count > 0 THEN [f EXCEPT !.pc = "ws_cas"]
                 ELSE SpinNext(f, "ws_load", "w_sub"), m_count)
    /\ UNCHANGED <<m_sema, signalled, spurious>>

\* sema.h:202-203: compare_exchange_strong(oldCount, oldCount - 1)
WaitSpinCAS(t) ==
    /\ th[t].pc = "ws_cas"
    /\ LET f == th[t] IN
       IF CompareExchange(m_count, f.oldCount)
       THEN Commit(t, Done(f, 0, "spin"), f.oldCount - 1)
       ELSE Commit(t, SpinNext([f EXCEPT !.oldCount = m_count],
                               "ws_load", "w_sub"), m_count)
    /\ UNCHANGED <<m_sema, signalled, spurious>>

\* (mutant) the kernel wait taken after every fetch_sub, without the test
WaitSubAlwaysBlocks(t) ==
    /\ th[t].pc = "w_sub"
    /\ LET f == [th[t] EXCEPT !.oldCount = m_count, !.acc = 1] IN
       Commit(t, [f EXCEPT !.pc = "kwait", !.path = "kernel"], m_count - 1)
    /\ UNCHANGED <<m_sema, signalled, spurious>>

\* (mutant) the test written "oldCount < 0"
WaitSubStrictTest(t) ==
    /\ th[t].pc = "w_sub"
    /\ LET f == [th[t] EXCEPT !.oldCount = m_count, !.acc = 1] IN
       Commit(t, IF m_count < 0 THEN [f EXCEPT !.pc = "kwait", !.path = "kernel"]
                 ELSE Done(f, 0, "decrement"), m_count - 1)
    /\ UNCHANGED <<m_sema, signalled, spurious>>

\* sema.h:206-207: fetch_sub(1) and the test "oldCount <= 0"
WaitSub(t) ==
    /\ th[t].pc = "w_sub"
    /\ LET f == [th[t] EXCEPT !.oldCount = m_count, !.acc = 1] IN
       Commit(t, IF m_count <= 0 THEN [f EXCEPT !.pc = "kwait", !.path = "kernel"]
                 ELSE Done(f, 0, "decrement"), m_count - 1)
    /\ UNCHANGED <<m_sema, signalled, spurious>>

\* ------------------------------------------------------------ tryWaitMany

\* sema.h:232-234: "if (max > 1) return 1 + tryWaitMany(max - 1); return 1;"
AfterFirstToken(f) ==
    IF f.arg > 1
    THEN [f EXCEPT !.pc = "tm_load", !.max = TopUpMax(f.arg), !.oldCount = 0]
    ELSE Done(f, 1, f.path)

\* tryWaitMany returned r to: its caller (sema.h:269, 271), waitMany
\* (sema.h:278-281) or the top-up of waitManyWithPartialSpinning (sema.h:233).
TryWaitManyReturned(f, r) ==
    CASE f.op = "tryWaitMany" -> Done(f, r, "fast")
      [] f.acc = 1 -> Done(f, TopUpResult(r), f.path)
      [] r = 0 /\ f.arg > 0 ->
            [f EXCEPT !.pc = "ms_load", !.spin = SpinBudget, !.oldCount = 0]
      [] OTHER -> Done(f, r, "fast")

\* sema.h:264-265: the load and the first test of "while (oldCount > 0)".
TryWaitManyRead(t, f) ==
    /\ Commit(t, IF m_count > 0
                 THEN [f EXCEPT !.pc = "tm_cas", !.oldCount = m_count]
                 ELSE TryWaitManyReturned(f, 0), m_count)
    /\ UNCHANGED <<m_sema, signalled, spurious>>

\* ssize_t tryWaitMany(ssize_t max): sema.h:261-272
TryWaitMany(t, max) ==
    /\ CanCall(t)
    /\ TryWaitManyRead(t, [Call("tryWaitMany", max) EXCEPT !.max = max])

\* ssize_t waitMany(ssize_t max): sema.h:275-282, entering tryWaitMany(max)
WaitMany(t, max) ==
    /\ CanCall(t)
    /\ TryWaitManyRead(t, [Call("waitMany", max) EXCEPT !.max = max])

\* sema.h:233: the load of the top-up's tryWaitMany(max - 1)
TopUpLoad(t) ==
    /\ th[t].pc = "tm_load"
    /\ TryWaitManyRead(t, th[t])

\* sema.h:267-269: compare_exchange_weak(oldCount, newCount)
TryWaitManyCAS(t) ==
    /\ th[t].pc = "tm_cas"
    /\ LET f == th[t]
           newCount == NewCount(f.oldCount, f.max) IN
       \/ /\ CompareExchange(m_count, f.oldCount)
          /\ Commit(t, TryWaitManyReturned(f, f.oldCount - newCount), newCount)
          /\ UNCHANGED <<m_sema, signalled, spurious>>
       \/ /\ ~CompareExchange(m_count, f.oldCount)
          /\ Commit(t, IF m_count > 0
                       THEN [f EXCEPT !.oldCount = m_count]
                       ELSE TryWaitManyReturned(f, 0), m_count)
          /\ UNCHANGED <<m_sema, signalled, spurious>>
       \/ /\ m_count = f.oldCount
          /\ spurious < MaxSpurious
          /\ spurious' = spurious + 1
          /\ Commit(t, f, m_count)
          /\ UNCHANGED <<m_sema, signalled>>

\* -------------------------------------------- waitManyWithPartialSpinning

\* sema.h:218-221: "spin--", the load and the test "oldCount > 0"
WaitManySpinLoad(t) ==
    /\ th[t].pc = "ms_load"
    /\ LET f == [th[t] EXCEPT !.spin = @ - 1, !.oldCount = m_count] IN
       Commit(t, IF m_count > 0 THEN [f EXCEPT !.pc = "ms_cas"]
                 ELSE SpinNext(f, "ms_load", "m_sub"), m_count)
    /\ UNCHANGED <<m_sema, signalled, spurious>>

\* sema.h:223-225: compare_exchange_strong(oldCount, newCount)
WaitManySpinCAS(t) ==
    /\ th[t].pc = "ms_cas"
    /\ LET f == th[t]
           newCount == NewCount(f.oldCount, f.max) IN
       IF CompareExchange(m_count, f.oldCount)
       THEN Commit(t, Done(f, f.oldCount - newCount, "spin"), newCount)
       ELSE Commit(t, SpinNext([f EXCEPT !.oldCount = m_count],
                               "ms_load", "m_sub"), m_count)
    /\ UNCHANGED <<m_sema, signalled, spurious>>

\* sema.h:229-234: fetch_sub(1), the test "oldCount <= 0" and what follows
WaitManySub(t) ==
    /\ th[t].pc = "m_sub"
    /\ LET f == [th[t] EXCEPT !.oldCount = m_count, !.acc = 1] IN
       Commit(t, IF m_count <= 0 THEN [f EXCEPT !.pc = "kwait", !.path = "kernel"]
                 ELSE AfterFirstToken([f EXCEPT !.path = "decrement"]),
              m_count - 1)
    /\ UNCHANGED <<m_sema, signalled, spurious>>

\* -------------------------------------------------------- kernel semaphore

\* (mutant) the kernel wait returning without taking the token
KernelWaitKeepsToken(t) ==
    /\ th[t].pc = "kwait"
    /\ m_sema > 0
    /\ m_sema' = m_sema
    /\ Commit(t, IF th[t].op = "wait" THEN Done(th[t], 0, "kernel")
                 ELSE AfterFirstToken(th[t]), m_count)
    /\ UNCHANGED <<signalled, spurious>>

\* Semaphore::wait, sema.h:141-150 (sem_wait, retried on EINTR), called at
\* sema.h:209 and 231: returns once it has taken one token.
KernelWait(t) ==
    /\ th[t].pc = "kwait"
    /\ m_sema > 0
    /\ m_sema' = m_sema - 1
    /\ Commit(t, IF th[t].op = "wait" THEN Done(th[t], 0, "kernel")
                 ELSE AfterFirstToken(th[t]), m_count)
    /\ UNCHANGED <<signalled, spurious>>

\* ----------------------------------------------------------------- signal

\* void signal(ssize_t count): sema.h:284-289, the fetch_add
Signal(t, count) ==
    /\ CanCall(t)
    /\ recording \/ m_count + count <= MaxCount
    /\ LET f == [Call("signal", count) EXCEPT
                    !.oldCount = m_count,
                    !.toRelease = ToRelease(m_count, count)] IN
       Commit(t, IF f.toRelease > 0 THEN [f EXCEPT !.pc = "s_post"]
                 ELSE [Done(f, 0, "fast") EXCEPT !.oldCount = f.oldCount],
              m_count + count)
    /\ signalled' = IF recording THEN signalled + count ELSE signalled
    /\ UNCHANGED <<m_sema, spurious>>

\* Semaphore::signal(int count), sema.h:157-163, called at sema.h:291:
\* one sem_post of "while (count-- > 0)"
SignalPost(t) ==
    /\ th[t].pc = "s_post"
    /\ m_sema' = m_sema + 1
    /\ LET f == [th[t] EXCEPT !.toRelease = @ - 1, !.posted = @ + 1] IN
       Commit(t, IF f.toRelease > 0 THEN f
                 ELSE [Done(f, 0, "kernel") EXCEPT !.oldCount = f.oldCount],
              m_count)
    /\ UNCHANGED <<signalled, spurious>>

\* -------------------------------------------------------- availableApprox

\* ssize_t availableApprox() const: sema.h:295-299
AvailableApprox(t) ==
    /\ CanCall(t)
    /\ LET f == Call("availableApprox", 0) IN
       Commit(t, Done(f, AvailableValue(m_count), "fast"), m_count)
    /\ UNCHANGED <<m_sema, signalled, spurious>>

\* ---------------------------------------------------------- specifications

\* LightweightSemaphore(ssize_t initialCount): sema.h:238-241
Construct(c, rec, n, callers) ==
    /\ m_count = c
    /\ m_sema = 0
    /\ th = [t \in Threads |-> NoFrame]
    /\ ret = NoFrame
    /\ initialCount = c
    /\ signalled = 0
    /\ acquired = 0
    /\ calls = 0
    /\ spurious = 0
    /\ recording = rec
    /\ budget = n
    /\ live = callers
    /\ value = {}
    /\ wordBits = 0
    /\ bf = NoMutation

Init == \E c \in 0..MaxInit : Construct(c, TRUE, MaxCalls, Threads)

\* A step of a call in progress.
Step(t) ==
    \/ TryWaitCAS(t)
    \/ WaitSpinLoad(t)
    \/ WaitSpinCAS(t)
    \/ WaitSub(t)
    \/ TopUpLoad(t)
    \/ TryWaitManyCAS(t)
    \/ WaitManySpinLoad(t)
    \/ WaitManySpinCAS(t)
    \/ WaitManySub(t)
    \/ KernelWait(t)
    \/ SignalPost(t)

Next ==
    \E t \in Threads :
        \/ TryWait(t)
        \/ Wait(t)
        \/ \E max \in 0..MaxArg : TryWaitMany(t, max)
        \/ \E max \in 0..MaxArg : WaitMany(t, max)
        \/ \E count \in 0..MaxArg : Signal(t, count)
        \/ AvailableApprox(t)
        \/ Step(t)

Spec == Init /\ [][Next]_vars

\* --- wait and signal only, every thread scheduled fairly, the kernel
\* semaphore waking a waiter when it holds a token
InitWS == \E c \in 0..MaxInit : Construct(c, TRUE, MaxCallsWS, Threads)

StepWS(t) ==
    \/ TryWaitCAS(t)
    \/ WaitSpinLoad(t)
    \/ WaitSpinCAS(t)
    \/ WaitSub(t)
    \/ KernelWait(t)
    \/ SignalPost(t)

NextWS ==
    \E t \in Threads :
        \/ Wait(t)
        \/ \E count \in 0..MaxArg : Signal(t, count)
        \/ StepWS(t)

SpecWS == InitWS /\ [][NextWS]_vars /\ \A t \in Threads : WF_vars(StepWS(t))

\* --- tryWait only
InitTW == \E c \in 0..MaxInitTW : Construct(c, TRUE, MaxCallsTW, Threads)

NextTW == \E t \in Threads : TryWait(t) \/ TryWaitCAS(t)

SpecTW == InitTW /\ [][NextTW]_vars

\* --- every operation, calls issued without end (no history counters), every
\* thread scheduled fairly
InitLF == \E c \in 0..MaxInit : Construct(c, FALSE, 0, LockFreeThreads)

SpecLF == InitLF /\ [][Next]_vars /\ \A t \in Threads : WF_vars(Step(t))

\* ------------------------------------------------------------ properties

AllIdle == \A t \in Threads : th[t].pc = "idle"

InProgress(o) == {t \in Threads : th[t].pc # "idle" /\ th[t].op = o}

\* C1 (conservation): in every reachable state the tokens acquired so far
\* (1 per returned wait, 1 per tryWait that returned true, the value returned
\* by each tryWaitMany / waitMany) never exceed the initial count plus the
\* counts of the signal calls that have executed their fetch_add.
C1_Conservation == acquired <= initialCount + signalled

\* C1 witness: a waiter that was suspended on the kernel semaphore has
\* returned with a token, and every token there ever was has been acquired.
C1_Witness ==
    /\ ret.op \in {"wait", "waitMany"}
    /\ ret.path = "kernel"
    /\ acquired >= 1
    /\ acquired = initialCount + signalled

\* C2 (no lost wakeup): with wait and signal the only operations and every
\* thread scheduled fairly, if from some point on the initial count plus the
\* counts of the completed signal calls covers the wait calls issued, then
\* from some point on no wait call is in progress: every wait has returned.
SignalsCompleted == signalled - (IF InProgress("signal") = {} THEN 0
    ELSE LET S == InProgress("signal")
             Sum[X \in SUBSET S] ==
                 IF X = {} THEN 0
                 ELSE LET u == CHOOSE v \in X : TRUE
                      IN th[u].arg + Sum[X \ {u}]
         IN Sum[S])

WaitsIssued == acquired + Cardinality(InProgress("wait"))

EnoughSignalled == initialCount + SignalsCompleted >= WaitsIssued

C2_NoLostWakeup == <>[]EnoughSignalled => <>[](InProgress("wait") = {})

\* C2 witness: two waiters were suspended, and both have returned.
C2_Witness ==
    /\ initialCount = 0
    /\ acquired = 2
    /\ ret.op = "wait" /\ ret.path = "kernel"
    /\ EnoughSignalled
    /\ AllIdle

\* C3 (no double-acquire): on a semaphore constructed with count 1, with
\* tryWait the only operation, once two tryWait calls have returned exactly
\* one of them returned true and the count is 0.
C3_NoDoubleAcquire ==
    (initialCount = 1 /\ calls = 2 /\ AllIdle) => (acquired = 1 /\ m_count = 0)

\* C3 witness: the two calls overlapped: the one that returned last lost
\* the race (the other call changed the count under it) and returned false.
C3_Witness ==
    /\ initialCount = 1 /\ calls = 2 /\ AllIdle
    /\ ret.op = "tryWait" /\ ret.dirty /\ ret.result = FALSE

Min(a, b) == IF a < b THEN a ELSE b

\* A call returned in this step: a call in progress became idle, or a call
\* was issued and returned at once.  ret' is then the returned frame.
Returned ==
    \/ \E t \in Threads : th[t].pc # "idle" /\ th'[t].pc = "idle"
    \/ /\ calls' = calls + 1
       /\ \A t \in Threads : th[t].pc = "idle" => th'[t].pc = "idle"

\* Thread t left the kernel semaphore's wait in this step.
Resumed(t) == th[t].pc = "kwait" /\ th'[t].pc # "kwait"

OneWaitOneSignal ==
    /\ initialCount = 0 /\ calls = 2 /\ signalled = 1
    /\ ret.op = "wait"
    /\ AllIdle

C5_WaitManyBounds ==
    (ret.op = "waitMany" /\ ret.arg > 0) =>
        (1 <= ret.result /\ ret.result <= ret.arg)

\* C5 witness: a waitMany(2) that was suspended on the kernel semaphore and
\* got nothing more from its top-up.
C5_Witness ==
    /\ ret.op = "waitMany" /\ ret.arg = 2
    /\ ret.path = "kernel" /\ ret.result = 1

\* C6 (tryWaitMany): the step in which tryWaitMany(max) returns r replaces
\* the count c by c - r, where r = min(max, c) when c > 0 and r = 0 when the
\* count read was <= 0; so 0 <= r <= max; and when no other thread changed
\* the count during the call, availableApprox() after the call is
\* availableApprox() before it minus r.
C6_TryWaitMany ==
    [][ (Returned /\ ret'.op = "tryWaitMany") =>
          LET r == ret'.result
              max == ret'.arg IN
          /\ r = (IF m_count > 0 THEN Min(max, m_count) ELSE 0)
          /\ 0 <= r /\ r <= max
          /\ m_count' = m_count - r
          /\ m_sema' = m_sema
          /\ ~ret'.dirty =>
                AvailableValue(m_count') = AvailableValue(ret'.startCount) - r
      ]_vars

\* C6 witness: an undisturbed tryWaitMany(2) that found a single token.
C6_Witness ==
    /\ ret.op = "tryWaitMany" /\ ret.arg = 2 /\ ret.result = 1
    /\ ~ret.dirty /\ ret.startCount = 1 /\ m_count = 0

\* C7 (tryWait): the step in which tryWait returns true is a compare-and-swap
\* that replaces a positive count c by c - 1; the step in which it returns
\* false reads a count <= 0 and leaves the count unchanged; a tryWait in
\* progress is only ever between its load and its compare-and-swap, so it
\* calls neither the wait nor the signal of the kernel semaphore.
C7_TryWait ==
    [][ /\ (Returned /\ ret'.op = "tryWait") =>
              /\ ret'.result \in BOOLEAN
              /\ ret'.result = TRUE =>
                     (m_count > 0 /\ m_count' = m_count - 1)
              /\ ret'.result = FALSE =>
                     (m_count <= 0 /\ m_count' = m_count)
              /\ m_sema' = m_sema
        /\ \A t \in Threads :
              th'[t].op = "tryWait" =>
                  /\ th'[t].pc = "tw_cas"
                  /\ (th[t].op = "tryWait" /\ th'[t] # th[t]) => m_sema' = m_sema
      ]_vars

\* C7 witness: a tryWait lost the last token to another thread between its
\* load and its compare-and-swap and returned false.
C7_Witness ==
    /\ ret.op = "tryWait" /\ ret.result = FALSE
    /\ ret.startCount = 1 /\ ret.dirty

\* C8 (signal): signal(count) adds count to the counter in one step, and with
\* oldCount the value that step replaced, it signals the kernel semaphore
\* min(count, max(0, -oldCount)) times in all: none when oldCount >= 0.
C8_Signal ==
    [][ /\ \A t \in Threads :
              (th[t].pc = "idle" /\ th'[t].pc = "s_post") =>
                  /\ m_count' = m_count + th'[t].arg
                  /\ th'[t].oldCount = m_count /\ m_count < 0
                  /\ th'[t].posted = 0 /\ m_sema' = m_sema
        /\ \A t \in Threads :
              th'[t].pc = "s_post" =>
                  /\ th'[t].toRelease > 0
                  /\ th'[t].posted + th'[t].toRelease =
                        Min(th'[t].arg, -th'[t].oldCount)
        /\ \A t \in Threads :
              (/\ th[t].pc = "s_post" /\ th'[t].pc = "s_post"
               /\ th'[t].posted # th[t].posted) =>
                  /\ th'[t].posted = th[t].posted + 1
                  /\ m_sema' = m_sema + 1 /\ m_count' = m_count
        /\ (Returned /\ ret'.op = "signal") =>
              /\ ret'.posted =
                    Min(ret'.arg, IF ret'.oldCount < 0 THEN -ret'.oldCount ELSE 0)
              /\ ret'.oldCount >= 0 => ret'.posted = 0
              /\ ret'.posted = 0 =>
                    /\ m_sema' = m_sema
                    /\ ret'.oldCount = m_count
                    /\ m_count' = m_count + ret'.arg
              /\ ret'.posted > 0 =>
                    /\ m_sema' = m_sema + 1 /\ m_count' = m_count
      ]_vars

\* C8 witness: a signal(1) found two threads recorded as waiting and
\* signalled the kernel semaphore once.
C8_Witness ==
    /\ ret.op = "signal" /\ ret.arg = 1
    /\ ret.oldCount = -2 /\ ret.posted = 1

\* C9 (availableApprox): the step in which availableApprox returns, returns
\* max(0, counter), which is never negative, and changes neither the counter
\* nor the kernel semaphore.
C9_AvailableApprox ==
    [][ (Returned /\ ret'.op = "availableApprox") =>
          /\ ret'.result = (IF m_count > 0 THEN m_count ELSE 0)
          /\ ret'.result >= 0
          /\ m_count' = m_count /\ m_sema' = m_sema
      ]_vars

\* C9 witness: availableApprox returned 0 while the counter was negative (a
\* thread recorded as waiting).
C9_Witness ==
    /\ ret.op = "availableApprox" /\ ret.result = 0
    /\ ret.startCount < 0 /\ m_count < 0

\* C10 as stated: every tryWait and tryWaitMany call completes in a bounded
\* number of its own steps whatever the other threads do; so a call in
\* progress whose thread keeps being scheduled returns.
C10_BoundedSteps ==
    \A t \in Threads :
        (th[t].op \in {"tryWait", "tryWaitMany"} /\ th[t].pc # "idle")
            ~> (th[t].pc = "idle")

\* C10 as amended: tryWait, tryWaitMany and signal never wait on the kernel
\* semaphore (in progress they are only at their compare-and-swap, or at the
\* kernel signals of signal); signal completes in at most 1 + count steps of
\* its own (each of its steps after the fetch_add lowers toRelease, which
\* starts at no more than count); a compare-and-swap of tryWait or
\* tryWaitMany fails and is retried only when another thread changed the
\* counter during the call, or spuriously.
C10_LockFree ==
    [][ \A t \in Threads :
          /\ th'[t].op \in {"tryWait", "tryWaitMany", "signal"} =>
                th'[t].pc \in {"tw_cas", "tm_cas", "s_post"}
          /\ th'[t].pc = "s_post" =>
                /\ th'[t].toRelease >= 1
                /\ th'[t].posted + th'[t].toRelease <= th'[t].arg
          /\ (/\ th[t].pc = "s_post" /\ th'[t].pc = "s_post"
              /\ (m_sema' # m_sema \/ th'[t].posted # th[t].posted)) =>
                \/ th'[t].toRelease = th[t].toRelease - 1
                \/ th'[t] = th[t]
          /\ (/\ th[t].op \in {"tryWait", "tryWaitMany"}
              /\ th[t].pc \in {"tw_cas", "tm_cas"}
              /\ th'[t].pc = th[t].pc
              /\ th'[t] # th[t]) =>
                \/ th[t].dirty /\ th'[t].oldCount = m_count
                \/ th'[t] = [th[t] EXCEPT !.dirty = TRUE] /\ m_count' # m_count
          /\ (/\ th[t].op \in {"tryWait", "tryWaitMany"}
              /\ th[t].pc \in {"tw_cas", "tm_cas"}
              /\ th'[t].pc = "idle"
              /\ m_count # th[t].oldCount) => th[t].dirty
      ]_vars

\* C10 witness: a tryWait in progress has retried its compare-and-swap with a
\* newly read count because another thread changed the counter under it.
C10_Witness ==
    \E t \in Threads :
        /\ th[t].op = "tryWait" /\ th[t].pc = "tw_cas"
        /\ th[t].dirty /\ th[t].oldCount # th[t].startCount

\* C11 (the fast path never touches the kernel): the kernel semaphore's wait
\* is entered only by a wait / waitMany whose fetch_sub observed a count <= 0
\* (which leaves the counter negative), and only such a thread takes a token
\* from it; the kernel semaphore is signalled only by a signal whose fetch_add
\* observed a count < 0.  So as long as the counter has not been negative, no
\* call has invoked the kernel semaphore.
C11_FastPath ==
    [][ /\ \A t \in Threads :
              (th'[t].pc = "kwait" /\ th[t].pc # "kwait") =>
                  /\ th[t].pc \in {"w_sub", "m_sub"}
                  /\ th[t].op \in {"wait", "waitMany"}
                  /\ m_count <= 0 /\ th'[t].oldCount = m_count
                  /\ m_count' = m_count - 1 /\ m_count' < 0
                  /\ m_sema' = m_sema
        /\ \A t \in Threads :
              (th'[t].pc = "s_post" /\ th[t].pc # "s_post") =>
                  /\ th[t].pc = "idle" /\ th'[t].op = "signal"
                  /\ m_count < 0 /\ th'[t].oldCount = m_count
                  /\ m_sema' = m_sema
        /\ m_sema' < m_sema =>
              \E t \in Threads :
                  /\ th[t].pc = "kwait" /\ th[t].oldCount <= 0
                  /\ th'[t].pc # "kwait" /\ m_sema' = m_sema - 1
        /\ m_sema' > m_sema =>
              \E t \in Threads :
                  /\ th[t].pc = "s_post" /\ th[t].op = "signal"
                  /\ th[t].oldCount < 0 /\ m_sema' = m_sema + 1
        /\ (m_count >= 0 /\ m_count' >= 0) =>
              \A t \in Threads :
                  /\ th'[t].pc = "kwait" => th[t].pc = "kwait"
                  /\ th'[t].pc = "s_post" => th[t].pc = "s_post"
      ]_vars

\* C11 witness: calls of every kind but availableApprox have returned from a
\* counter that was never negative: a wait got its token from its fetch_sub
\* after spinning, and the kernel semaphore was never touched.
C11_Witness ==
    /\ ret.op = "wait" /\ ret.path = "decrement"
    /\ calls = 2 /\ signalled > 0 /\ AllIdle
    /\ m_sema = 0 /\ m_count >= 0

\* C12 (quiescent consistency): whenever no call is in progress the counter
\* is initial count + signalled - acquired, is not negative, and the kernel
\* semaphore holds no token; after one wait() and one signal(1) on a semaphore
\* constructed with 0, availableApprox() is 0.
C12_Quiescent ==
    AllIdle =>
        /\ m_count = initialCount + signalled - acquired
        /\ m_count >= 0
        /\ m_sema = 0
        /\ OneWaitOneSignal => (IF m_count > 0 THEN m_count ELSE 0) = 0

\* C12 witness: the signal arrived while the waiter was spinning, and the
\* waiter took the token in its spin loop.
C12_Witness ==
    /\ OneWaitOneSignal /\ ret.path = "spin" /\ ret.dirty
    /\ m_count = 0 /\ m_sema = 0

\* The threads inside the kernel semaphore's wait (sema.h:209, 231).
KernelWaiters == {t \in Threads : th[t].pc = "kwait"}

\* The kernel signals that signal calls in progress have still to make.
PendingPosts ==
    LET S == {t \in Threads : th[t].pc = "s_post"}
        Sum[X \in SUBSET S] ==
            IF X = {} THEN 0
            ELSE LET u == CHOOSE v \in X : TRUE
                 IN th[u].toRelease + Sum[X \ {u}]
    IN Sum[S]

\* C18 as stated (counter meaning): whenever the counter is negative, it is
\* the negated number of threads waiting on the kernel semaphore.
C18_NegatedWaiters ==
    m_count < 0 => -m_count = Cardinality(KernelWaiters)

\* C18 as amended: a negative counter is the negated number of threads
\* waiting on the kernel semaphore for which no signal has yet taken charge
\* of a wake-up: the waiting threads less the tokens the kernel semaphore
\* holds and the kernel signals still to be made; when the counter is not
\* negative there are no such threads.  So at least -counter threads wait.
C18_CounterMeaning ==
    /\ Cardinality(KernelWaiters) - (m_sema + PendingPosts) =
          (IF m_count < 0 THEN -m_count ELSE 0)
    /\ m_count < 0 => -m_count <= Cardinality(KernelWaiters)

\* C18 witness: two threads wait on the kernel semaphore, a signal(1) has
\* raised the counter to -1 and has not yet signalled the kernel semaphore.
C18_Witness ==
    /\ m_count = -1
    /\ Cardinality(KernelWaiters) = 2
    /\ PendingPosts = 1 /\ m_sema = 0

C20_NoDoubleWake ==
    [][ /\ m_sema' <= Cardinality({t \in Threads : th'[t].pc = "kwait"})
        /\ m_sema' + PendingPosts' <=
              Cardinality({t \in Threads : th'[t].pc = "kwait"})
        /\ \A t \in Threads :
              Resumed(t) => (m_sema >= 1 /\ m_sema' = m_sema - 1)
        /\ m_sema' < m_sema =>
              Cardinality({t \in Threads : Resumed(t)}) = m_sema - m_sema'
      ]_vars

\* C20 witness: a signal(1) that found two threads committed to the kernel
\* wait has posted its one token and returned; neither thread has yet taken
\* the token.
C20_Witness ==
    /\ ret.op = "signal" /\ ret.posted = 1 /\ PendingPosts = 0
    /\ m_sema = 1 /\ m_count = -1
    /\ Cardinality(KernelWaiters) = 2

\* ================================================================ BitField
\* ------------------------------------------ the operators of the word type

SmallWordBits == 4    \* width of the word type whose every value is tried
MaxInput == 17        \* largest argument tried on the 32-bit word, besides T(-1)

\* uint32_t of "BEGIN_BITFIELD_TYPE(Status, uint32_t)"
StatusWordBits == 32

\* T(n) for a number n >= 0 below 2^30: the bits of n that T has.
Word(n, W) == {b \in 0..(W - 1) : b < 30 /\ (n \div (2 ^ b)) % 2 = 1}

\* The number a word stands for (words below 2^30).
Val(x) ==
    LET S[i \in 0..30] ==
            IF i = 30 THEN 0 ELSE (IF i \in x THEN 2 ^ i ELSE 0) + S[i + 1]
    IN S[0]

\* T(-1), the largest value of T
AllOnes(W) == 0..(W - 1)

\* x & y, x | y, ~x
BitAnd(x, y) == x \cap y
BitOr(x, y) == x \cup y
BitNot(x, W) == (0..(W - 1)) \ x

\* x << k and x >> k in T, 0 <= k < W
Shl(x, k, W) == {b + k : b \in x} \cap (0..(W - 1))
Shr(x, k) == {b - k : b \in {c \in x : c >= k}}

\* x + y + cin in T: the sum bit by bit with its carries, the carry out of
\* the top bit dropped
AddCarry(x, y, cin, W) ==
    LET carry[i \in 0..W] ==
            IF i = 0 THEN cin
            ELSE LET a == (i - 1) \in x
                     b == (i - 1) \in y
                     c == carry[i - 1]
                 IN (a /\ b) \/ (a /\ c) \/ (b /\ c)
    IN {i \in 0..(W - 1) : (i \in x) # ((i \in y) # carry[i])}

\* x + y and x - y in T (unsigned, modulo 2^W)
Plus(x, y, W) == AddCarry(x, y, FALSE, W)
Minus(x, y, W) == AddCarry(x, BitNot(y, W), TRUE, W)

\* x <= y in T (unsigned): equal, or the highest bit they differ in is y's
LessEq(x, y) ==
    \/ x = y
    \/ LET D == (x \ y) \cup (y \ x)
           top == CHOOSE b \in D : \A c \in D : c <= b
       IN top \in y

\* ----------------------------------------------------------- BitFieldMember

\* bitfield.h:40 "static const T Maximum = (T(1) << Bits) - 1;"
MemberMaximum(Bits, W) == Minus(Shl({0}, Bits, W), {0}, W)

\* bitfield.h:41 "static const T Mask = Maximum << Offset;"
MemberMask(Offset, Bits, W) == Shl(MemberMaximum(Bits, W), Offset, W)

\* bitfield.h:51-54 get(): "(this->value >> Offset) & Maximum"
MemberGet(val, Offset, Bits, W) ==
    BitAnd(Shr(val, Offset), MemberMaximum(Bits, W))

\* bitfield.h:58 "assert(v <= Maximum);"
MemberSetAssert(v, Bits, W) == LessEq(v, MemberMaximum(Bits, W))

\* (mutant) the value stored without the shift to the member's offset
MemberSetWordUnshifted(val, v, Offset, Bits, W) ==
    BitOr(BitAnd(val, BitNot(MemberMask(Offset, Bits, W), W)), v)

\* bitfield.h:59 "this->value = (this->value & ~Mask) | (v << Offset);"
MemberSetWord(val, v, Offset, Bits, W) ==
    BitOr(BitAnd(val, BitNot(MemberMask(Offset, Bits, W), W)), Shl(v, Offset, W))

\* (mutant) the member's old bits not cleared: "& ~Mask" forgotten
MemberSetWrappedWordUncleared(val, v, Offset, Bits, W) ==
    BitOr(val, Shl(BitAnd(v, MemberMaximum(Bits, W)), Offset, W))

\* bitfield.h:64 "(this->value & ~Mask) | ((v & Maximum) << Offset)"
MemberSetWrappedWord(val, v, Offset, Bits, W) ==
    BitOr(BitAnd(val, BitNot(MemberMask(Offset, Bits, W), W)),
          Shl(BitAnd(v, MemberMaximum(Bits, W)), Offset, W))

\* bitfield.h:69 "assert(get() + v <= Maximum);"
MemberAddAssert(val, v, Offset, Bits, W) ==
    LessEq(Plus(MemberGet(val, Offset, Bits, W), v, W), MemberMaximum(Bits, W))

\* bitfield.h:70 "this->value += v << Offset;"
MemberAddWord(val, v, Offset, Bits, W) == Plus(val, Shl(v, Offset, W), W)

\* (mutant) the sum stored without "& Mask"
MemberAddWrappedWordUnmasked(val, v, Offset, Bits, W) ==
    BitOr(BitAnd(val, BitNot(MemberMask(Offset, Bits, W), W)),
          Plus(val, Shl(v, Offset, W), W))

\* bitfield.h:75 "(this->value & ~Mask) | ((this->value + (v << Offset)) & Mask)"
MemberAddWrappedWord(val, v, Offset, Bits, W) ==
    BitOr(BitAnd(val, BitNot(MemberMask(Offset, Bits, W), W)),
          BitAnd(Plus(val, Shl(v, Offset, W), W), MemberMask(Offset, Bits, W)))

\* bitfield.h:80 "assert(get() >= v);"
MemberSubAssert(val, v, Offset, Bits, W) ==
    LessEq(v, MemberGet(val, Offset, Bits, W))

\* bitfield.h:81 "this->value -= v << Offset;"
MemberSubWord(val, v, Offset, Bits, W) == Minus(val, Shl(v, Offset, W), W)

\* bitfield.h:86 "(this->value & ~Mask) | ((this->value - (v << Offset)) & Mask)"
MemberSubWrappedWord(val, v, Offset, Bits, W) ==
    BitOr(BitAnd(val, BitNot(MemberMask(Offset, Bits, W), W)),
          BitAnd(Minus(val, Shl(v, Offset, W), W), MemberMask(Offset, Bits, W)))

\* ------------------------------------------------------------ BitFieldArray

\* bitfield.h:103 "static const T Maximum = (T(1) << BitsPerItem) - 1;"
ArrayMaximum(BitsPerItem, W) == Minus(Shl({0}, BitsPerItem, W), {0}, W)

\* (mutant) the element width forgotten in the offset
ArrayOffsetUnscaled(BaseOffset, BitsPerItem, i) == BaseOffset + i

\* bitfield.h:111-115 offset(i): "return BaseOffset + BitsPerItem * i;"
ArrayOffset(BaseOffset, BitsPerItem, i) == BaseOffset + BitsPerItem * i

\* bitfield.h:113 "assert(i >= 0 && i < NumItems);"
ArrayIndexAssert(i, NumItems) == i >= 0 /\ i < NumItems

\* bitfield.h:117 mask(i): "return Maximum << offset(i);"
ArrayMask(BaseOffset, BitsPerItem, i, W) ==
    Shl(ArrayMaximum(BitsPerItem, W), ArrayOffset(BaseOffset, BitsPerItem, i), W)

\* bitfield.h:120-123 get(i): "(this->value >> offset(i)) & Maximum"
ArrayGet(val, BaseOffset, BitsPerItem, i, W) ==
    BitAnd(Shr(val, ArrayOffset(BaseOffset, BitsPerItem, i)),
           ArrayMaximum(BitsPerItem, W))

\* bitfield.h:127 "assert(v <= Maximum);"
ArraySetAssert(v, BitsPerItem, W) == LessEq(v, ArrayMaximum(BitsPerItem, W))

\* bitfield.h:128 "(this->value & ~mask(i)) | (v << offset(i))"
ArraySetWord(val, v, BaseOffset, BitsPerItem, i, W) ==
    BitOr(BitAnd(val, BitNot(ArrayMask(BaseOffset, BitsPerItem, i, W), W)),
          Shl(v, ArrayOffset(BaseOffset, BitsPerItem, i), W))

\* bitfield.h:133 "(this->value & ~mask(i)) | ((v & Maximum) << offset(i))"
ArraySetWrappedWord(val, v, BaseOffset, BitsPerItem, i, W) ==
    BitOr(BitAnd(val, BitNot(ArrayMask(BaseOffset, BitsPerItem, i, W), W)),
          Shl(BitAnd(v, ArrayMaximum(BitsPerItem, W)),
              ArrayOffset(BaseOffset, BitsPerItem, i), W))

\* bitfield.h:138 "assert(get(i) + v <= Maximum);"
ArrayAddAssert(val, v, BaseOffset, BitsPerItem, i, W) ==
    LessEq(Plus(ArrayGet(val, BaseOffset, BitsPerItem, i, W), v, W),
           ArrayMaximum(BitsPerItem, W))

\* bitfield.h:139 "this->value += v << offset(i);"
ArrayAddWord(val, v, BaseOffset, BitsPerItem, i, W) ==
    Plus(val, Shl(v, ArrayOffset(BaseOffset, BitsPerItem, i), W), W)

\* bitfield.h:144-145 "T m = mask(i); (this->value & ~m) |
\* ((this->value + (v << offset(i))) & m)"
ArrayAddWrappedWord(val, v, BaseOffset, BitsPerItem, i, W) ==
    LET m == ArrayMask(BaseOffset, BitsPerItem, i, W) IN
    BitOr(BitAnd(val, BitNot(m, W)),
          BitAnd(Plus(val, Shl(v, ArrayOffset(BaseOffset, BitsPerItem, i), W), W), m))

\* bitfield.h:150 "assert(get(i) >= v);"
ArraySubAssert(val, v, BaseOffset, BitsPerItem, i, W) ==
    LessEq(v, ArrayGet(val, BaseOffset, BitsPerItem, i, W))

\* bitfield.h:151 "this->value -= v << offset(i);"
ArraySubWord(val, v, BaseOffset, BitsPerItem, i, W) ==
    Minus(val, Shl(v, ArrayOffset(BaseOffset, BitsPerItem, i), W), W)

\* bitfield.h:156-157 "T m = mask(i); (this->value & ~m) |
\* ((this->value - (v << offset(i))) & m)"
ArraySubWrappedWord(val, v, BaseOffset, BitsPerItem, i, W) ==
    LET m == ArrayMask(BaseOffset, BitsPerItem, i, W) IN
    BitOr(BitAnd(val, BitNot(m, W)),
          BitAnd(Minus(val, Shl(v, ArrayOffset(BaseOffset, BitsPerItem, i), W), W), m))

\* ------------------------------------------------------------ declarations

\* ADD_BITFIELD_MEMBER(name, offset, bits) with the static_asserts of
\* bitfield.h:34-35, for members of at least one bit
Members(W) ==
    {d \in [kind : {"member"}, offset : 0..(W - 1), bits : 1..(W - 1),
            numItems : {1}] : d.offset + d.bits <= W}

\* ADD_BITFIELD_ARRAY(name, offset, bitsPerItem, numItems) with the
\* static_asserts of bitfield.h:97-98, for at least one element of one bit
Arrays(W) ==
    {d \in [kind : {"array"}, offset : 0..(W - 1), bits : 1..(W - 1),
            numItems : 1..W] : d.offset + d.bits * d.numItems <= W}

\* main.cpp:38-40 "ADD_BITFIELD_ARRAY(philos, 0, 4, 8)" of Status
Philos == [kind |-> "array", offset |-> 0, bits |-> 4, numItems |-> 8]

\* The members a BitField type of W bits may declare: the one of Status for
\* uint32_t, every member and array for the small word type.
Declared(W) ==
    IF W = StatusWordBits THEN {Philos} ELSE Members(W) \cup Arrays(W)

\* The values passed as T v: every value of the small word type; for
\* uint32_t the small numbers and T(-1).
Inputs(W) ==
    IF W = StatusWordBits
    THEN {Word(n, W) : n \in 0..MaxInput} \cup {AllOnes(W)}
    ELSE SUBSET (0..(W - 1))

\* bitfield.h:22 "BitField(T v = 0) : value(v) {}": 0 or T(-1) for Status,
\* every value for the small word type
StartValues(W) ==
    IF W = StatusWordBits THEN {{}, AllOnes(W)} ELSE SUBSET (0..(W - 1))

\* ------------------------------------------------------------- the mutators

\* A mutator op applied to index i of member d with argument v: its
\* assertions hold (ok) and it stores new, or an assertion fails.
Mutate(op, d, i, v, ok, new) ==
    /\ wordBits > 0
    /\ bf.op = "none"
    /\ bf' = [op |-> op, kind |-> d.kind, offset |-> d.offset, bits |-> d.bits,
              numItems |-> d.numItems, index |-> i, v |-> v, before |-> value,
              failed |-> ~ok]
    /\ value' = IF ok THEN new ELSE value
    /\ UNCHANGED <<m_count, m_sema, th, ret, initialCount, signalled, acquired,
                   calls, spurious, recording, budget, live, wordBits>>

\* BitFieldMember::set, bitfield.h:56-60
MemberSet(d, v) ==
    Mutate("set", d, 0, v, MemberSetAssert(v, d.bits, wordBits),
           MemberSetWord(value, v, d.offset, d.bits, wordBits))

\* BitFieldMember::setWrapped, bitfield.h:62-65
MemberSetWrapped(d, v) ==
    Mutate("setWrapped", d, 0, v, TRUE,
           MemberSetWrappedWord(value, v, d.offset, d.bits, wordBits))

\* BitFieldMember::add, bitfield.h:67-71
MemberAdd(d, v) ==
    Mutate("add", d, 0, v, MemberAddAssert(value, v, d.offset, d.bits, wordBits),
           MemberAddWord(value, v, d.offset, d.bits, wordBits))

\* BitFieldMember::addWrapped, bitfield.h:73-76
MemberAddWrapped(d, v) ==
    Mutate("addWrapped", d, 0, v, TRUE,
           MemberAddWrappedWord(value, v, d.offset, d.bits, wordBits))

\* BitFieldMember::sub, bitfield.h:78-82
MemberSub(d, v) ==
    Mutate("sub", d, 0, v, MemberSubAssert(value, v, d.offset, d.bits, wordBits),
           MemberSubWord(value, v, d.offset, d.bits, wordBits))

\* BitFieldMember::subWrapped, bitfield.h:84-87
MemberSubWrapped(d, v) ==
    Mutate("subWrapped", d, 0, v, TRUE,
           MemberSubWrappedWord(value, v, d.offset, d.bits, wordBits))

\* BitFieldArray::set, bitfield.h:125-129
ArraySet(d, i, v) ==
    Mutate("set", d, i, v,
           ArrayIndexAssert(i, d.numItems) /\ ArraySetAssert(v, d.bits, wordBits),
           ArraySetWord(value, v, d.offset, d.bits, i, wordBits))

\* BitFieldArray::setWrapped, bitfield.h:131-134
ArraySetWrapped(d, i, v) ==
    Mutate("setWrapped", d, i, v, ArrayIndexAssert(i, d.numItems),
           ArraySetWrappedWord(value, v, d.offset, d.bits, i, wordBits))

\* BitFieldArray::add, bitfield.h:136-140
ArrayAdd(d, i, v) ==
    Mutate("add", d, i, v,
           /\ ArrayIndexAssert(i, d.numItems)
           /\ ArrayAddAssert(value, v, d.offset, d.bits, i, wordBits),
           ArrayAddWord(value, v, d.offset, d.bits, i, wordBits))

\* BitFieldArray::addWrapped, bitfield.h:142-146
ArrayAddWrapped(d, i, v) ==
    Mutate("addWrapped", d, i, v, ArrayIndexAssert(i, d.numItems),
           ArrayAddWrappedWord(value, v, d.offset, d.bits, i, wordBits))

\* BitFieldArray::sub, bitfield.h:148-152
ArraySub(d, i, v) ==
    Mutate("sub", d, i, v,
           /\ ArrayIndexAssert(i, d.numItems)
           /\ ArraySubAssert(value, v, d.offset, d.bits, i, wordBits),
           ArraySubWord(value, v, d.offset, d.bits, i, wordBits))

\* BitFieldArray::subWrapped, bitfield.h:154-158
ArraySubWrapped(d, i, v) ==
    Mutate("subWrapped", d, i, v, ArrayIndexAssert(i, d.numItems),
           ArraySubWrappedWord(value, v, d.offset, d.bits, i, wordBits))

\* A BitField of a word type of W bits constructed with value v0; no
\* semaphore in the run.
ConstructBitField(W, v0) ==
    /\ m_count = 0
    /\ m_sema = 0
    /\ th = [t \in Threads |-> NoFrame]
    /\ ret = NoFrame
    /\ initialCount = 0
    /\ signalled = 0
    /\ acquired = 0
    /\ calls = 0
    /\ spurious = 0
    /\ recording = FALSE
    /\ budget = 0
    /\ live = {}
    /\ value = v0
    /\ wordBits = W
    /\ bf = NoMutation

InitBF ==
    \E W \in {SmallWordBits, StatusWordBits} :
        \E v0 \in StartValues(W) : ConstructBitField(W, v0)

NextBF ==
    /\ bf.op = "none"
    /\ \E d \in Declared(wordBits) : \E v \in Inputs(wordBits) :
        \/ d.kind = "member" /\ MemberSet(d, v)
        \/ d.kind = "member" /\ MemberSetWrapped(d, v)
        \/ d.kind = "member" /\ MemberAdd(d, v)
        \/ d.kind = "member" /\ MemberAddWrapped(d, v)
        \/ d.kind = "member" /\ MemberSub(d, v)
        \/ d.kind = "member" /\ MemberSubWrapped(d, v)
        \/ \E i \in 0..(d.numItems - 1) :
              /\ d.kind = "array"
              /\ \/ ArraySet(d, i, v)
                 \/ ArraySetWrapped(d, i, v)
                 \/ ArrayAdd(d, i, v)
                 \/ ArrayAddWrapped(d, i, v)
                 \/ ArraySub(d, i, v)
                 \/ ArraySubWrapped(d, i, v)

\* One mutator applied to a BitField constructed with any value.
SpecBF == InitBF /\ [][NextBF]_vars

\* ------------------------------------------------------ BitField properties

\* The mutator applied was op of a member of the given kind.
Applied(op, kind) == bf.op = op /\ bf.kind = kind

\* v is in [0, 2^b - 1].
InRange(v, b) == v \subseteq 0..(b - 1)

\* The bit positions of the member, or of the array element, written to.
TargetOffset == bf.offset + bf.bits * bf.index
TargetBits == TargetOffset..(TargetOffset + bf.bits - 1)

\* The number held in the b bits at offset o of word x.
FieldVal(x, o, b) == Val({q - o : q \in x \cap (o..(o + b - 1))})

\* C13 (round trip): for a member of width w at offset o of the word, every
\* starting value and every v in [0, 2^w - 1]: set(v) passes its assertion
\* and get() then returns v.
C13_RoundTrip ==
    (Applied("set", "member") /\ InRange(bf.v, bf.bits)) =>
        /\ ~bf.failed
        /\ MemberGet(value, bf.offset, bf.bits, wordBits) = bf.v
        /\ FieldVal(value, bf.offset, bf.bits) = Val(bf.v)

\* C13 witness: set(2) on a 2-bit member at offset 1 of a word that was all
\* ones.
C13_Witness ==
    /\ Applied("set", "member") /\ bf.offset = 1 /\ bf.bits = 2
    /\ bf.before = AllOnes(SmallWordBits) /\ bf.v = {1}
    /\ value # bf.before

\* C14 (isolation): a mutator of member A whose assertion held (set, add,
\* sub) or that has none (setWrapped, addWrapped, subWrapped) leaves every
\* bit outside A's bits as it was, so get() of every other declared member,
\* and of every element of every declared array, that shares no bit with A
\* returns what it returned before.
C14_Isolation ==
    (bf.kind = "member" /\ ~bf.failed) =>
        /\ value \ TargetBits = bf.before \ TargetBits
        /\ \A e \in Declared(wordBits) : \A j \in 0..(e.numItems - 1) :
              LET o == e.offset + e.bits * j IN
              (o..(o + e.bits - 1)) \cap TargetBits = {} =>
                  IF e.kind = "member"
                  THEN MemberGet(value, e.offset, e.bits, wordBits) =
                       MemberGet(bf.before, e.offset, e.bits, wordBits)
                  ELSE ArrayGet(value, e.offset, e.bits, j, wordBits) =
                       ArrayGet(bf.before, e.offset, e.bits, j, wordBits)

\* C14 witness: addWrapped(1) wrapped a 2-bit member at offset 1 that held 3
\* around to 0; the bits on both sides of it are still 1.
C14_Witness ==
    /\ Applied("addWrapped", "member") /\ bf.offset = 1 /\ bf.bits = 2
    /\ bf.before = AllOnes(SmallWordBits) /\ bf.v = {0}
    /\ value = AllOnes(SmallWordBits) \ {1, 2}

\* C15 (overflow contract): set(v) with v > maximum fails its assertion;
\* setWrapped(v) has no assertion and for every v of the word type makes
\* get() return v mod 2^w.
C15_Overflow ==
    /\ (Applied("set", "member") /\ ~InRange(bf.v, bf.bits)) =>
          (bf.failed /\ value = bf.before)
    /\ Applied("setWrapped", "member") =>
          /\ ~bf.failed
          /\ MemberGet(value, bf.offset, bf.bits, wordBits) =
                bf.v \cap (0..(bf.bits - 1))
          /\ FieldVal(value, bf.offset, bf.bits) =
                Val(bf.v \cap (0..(bf.bits - 1))) % (2 ^ bf.bits)

\* C15 witness: setWrapped(13) on a 2-bit member that held 0 stored 1.
C15_Witness ==
    /\ Applied("setWrapped", "member") /\ bf.bits = 2 /\ bf.offset = 2
    /\ bf.v = {0, 2, 3} /\ bf.before = {}
    /\ value = {2}

\* The number the written member (or array element) held before the mutator,
\* the number it holds now, and its maximum 2^w - 1.
HeldBefore == FieldVal(bf.before, TargetOffset, bf.bits)
HeldNow == FieldVal(value, TargetOffset, bf.bits)
MaximumNumber == 2 ^ bf.bits - 1

\* addWrapped(v) makes get() return (g + v) mod 2^w, for every v.
AddWrappedModular ==
    bf.op = "addWrapped" =>
        /\ ~bf.failed
        /\ HeldNow = (HeldBefore + Val(bf.v \cap (0..(bf.bits - 1)))) % (2 ^ bf.bits)

\* subWrapped(v) makes get() return (g - v) mod 2^w, for every v.
SubWrappedModular ==
    bf.op = "subWrapped" =>
        /\ ~bf.failed
        /\ HeldNow = (HeldBefore + 2 ^ bf.bits
                        - Val(bf.v \cap (0..(bf.bits - 1)))) % (2 ^ bf.bits)

\* add(v) is a contract violation exactly when g + v > maximum, and
\* otherwise makes get() return g + v.
AddContract ==
    bf.op = "add" =>
        /\ bf.failed <=>
              (~InRange(bf.v, bf.bits) \/ HeldBefore + Val(bf.v) > MaximumNumber)
        /\ ~bf.failed => HeldNow = HeldBefore + Val(bf.v)

\* sub(v) is a contract violation exactly when g < v, and otherwise makes
\* get() return g - v.
SubContract ==
    bf.op = "sub" =>
        /\ bf.failed <=> (~InRange(bf.v, bf.bits) \/ HeldBefore < Val(bf.v))
        /\ ~bf.failed => HeldNow = HeldBefore - Val(bf.v)

\* C16 (add / sub), for members and array elements: addWrapped(v) and
\* subWrapped(v) make get() return (g + v) mod 2^w and (g - v) mod 2^w for
\* every v of the word type; add(v) and sub(v) fail their assertion exactly
\* when g + v > maximum, respectively g < v, and otherwise make get() return
\* g + v, respectively g - v.
C16_AddSub ==
    /\ AddWrappedModular
    /\ SubWrappedModular
    /\ AddContract
    /\ SubContract

\* C17 (array elements): for every declared array (N elements of w bits from
\* base offset b), every index i in [0, N), every starting word and every v
\* in [0, 2^w - 1], writing v into element i (set or setWrapped) passes its
\* assertions, makes get(i) return v and leaves get(j) unchanged for every
\* other j, and maximum() is 2^w - 1; on the 32-bit Status word with 8
\* elements of 4 bits at base offset 0, starting from 0, writing 7 into
\* element 5 makes element 5 hold 7, every other element 0, and maximum()
\* is 15.
C17_ArrayElements ==
    /\ (bf.kind = "array" /\ bf.op \in {"set", "setWrapped"} /\
        InRange(bf.v, bf.bits)) =>
          /\ ~bf.failed
          /\ ArrayGet(value, bf.offset, bf.bits, bf.index, wordBits) = bf.v
          /\ \A j \in 0..(bf.numItems - 1) :
                j # bf.index =>
                    ArrayGet(value, bf.offset, bf.bits, j, wordBits) =
                    ArrayGet(bf.before, bf.offset, bf.bits, j, wordBits)
          /\ Val(ArrayMaximum(bf.bits, wordBits)) = 2 ^ bf.bits - 1
    /\ (/\ wordBits = StatusWordBits /\ bf.kind = "array" /\ bf.op = "set"
        /\ bf.before = {} /\ bf.index = 5 /\ Val(bf.v) = 7) =>
          /\ bf.offset = 0 /\ bf.bits = 4 /\ bf.numItems = 8
          /\ Val(ArrayGet(value, 0, 4, 5, wordBits)) = 7
          /\ \A j \in (0..7) \ {5} : Val(ArrayGet(value, 0, 4, j, wordBits)) = 0
          /\ Val(ArrayMaximum(4, wordBits)) = 15
          /\ value = {20, 21, 22}

\* C17 witness: 7 has been written into element 5 of the Status word that
\* was 0.
C17_Witness ==
    /\ wordBits = StatusWordBits
    /\ bf.kind = "array" /\ bf.op = "set" /\ bf.index = 5
    /\ bf.before = {} /\ bf.v = {0, 1, 2} /\ ~bf.failed
    /\ value # {}

====
